---- MODULE Spec2Model ----
(***************************************************************************)
(* Model of TSCompiler (src/src/TSCompiler.ts): a compile-and-cache        *)
(* wrapper around typescript.transpileModule and InFilesCache.             *)
(*                                                                         *)
(* Paths are sequences of one-character strings, so that String.replace    *)
(* and path.resolve are computed character by character as the code does.  *)
(* Source texts and compiled texts are strings; "" is the empty (falsy)    *)
(* JavaScript string and undefined stands for an argument not supplied.    *)
(***************************************************************************)
EXTENDS Integers, Sequences, FiniteSets, TLC

\* ------------------------------------------------------------------ bounds
\* Number of compile calls started in one behaviour.
MaxCalls == 2

\* Number of call slots (callers that may be inside compile at once).
NumCallers == 2

Calls == 1..NumCallers

\* Longest filePath argument, in characters, of the path specification.
MaxPathLen == 4

\* ------------------------------------------------------- JavaScript values
undefined == "<undefined>"

\* JavaScript truthiness of a string-or-undefined value.
Truthy(v) == v # undefined /\ v # ""

\* ------------------------------------------------------------------- paths
Sep == "/"

\* The directory that holds package.json (dirPath of findPathToFile).
ProjectRoot == <<"/", "a">>

\* Position of the first occurrence of sub in s, 0 when there is none.
IndexOf(s, sub) ==
  LET hits == {i \in 1..(Len(s) - Len(sub) + 1) : SubSeq(s, i, i + Len(sub) - 1) = sub}
  IN IF hits = {} THEN 0 ELSE CHOOSE i \in hits : \A j \in hits : i <= j

\* String.prototype.replace(pattern: string, replacement): first occurrence only.
StringReplace(s, sub, rep) ==
  LET i == IndexOf(s, sub)
  IN IF i = 0 THEN s
     ELSE SubSeq(s, 1, i - 1) \o rep \o SubSeq(s, i + Len(sub), Len(s))

IsAbsolute(p) == Len(p) > 0 /\ p[1] = Sep

\* Segments of a path between separators (empty segments included).
RECURSIVE SplitPath(_)
SplitPath(p) ==
  LET i == IndexOf(p, <<Sep>>)
  IN IF i = 0 THEN <<p>>
     ELSE <<SubSeq(p, 1, i - 1)>> \o SplitPath(SubSeq(p, i + 1, Len(p)))

\* Node's normalizeString for an absolute path: drops "" and ".", ".." pops.
RECURSIVE NormalizeSegments(_, _)
NormalizeSegments(segs, acc) ==
  IF segs = <<>> THEN acc
  ELSE LET s == Head(segs)
           rest == Tail(segs)
       IN IF s = <<>> \/ s = <<".">> THEN NormalizeSegments(rest, acc)
          ELSE IF s = <<".", ".">>
               THEN NormalizeSegments(rest, IF acc = <<>> THEN acc ELSE SubSeq(acc, 1, Len(acc) - 1))
               ELSE NormalizeSegments(rest, Append(acc, s))

RECURSIVE JoinSegments(_)
JoinSegments(segs) ==
  IF segs = <<>> THEN <<>>
  ELSE <<Sep>> \o Head(segs) \o JoinSegments(Tail(segs))

NormalizeAbsolute(p) ==
  LET segs == NormalizeSegments(SplitPath(p), <<>>)
  IN IF segs = <<>> THEN <<Sep>> ELSE JoinSegments(segs)

\* path.resolve(from, to) on POSIX with working directory wd: arguments are
\* taken right to left until an absolute path is built; empty ones are skipped.
PathResolve(wd, from, to) ==
  IF IsAbsolute(to) THEN NormalizeAbsolute(to)
  ELSE LET tail == IF to = <<>> THEN <<>> ELSE <<Sep>> \o to
       IN IF IsAbsolute(from) THEN NormalizeAbsolute(from \o tail)
          ELSE NormalizeAbsolute(wd \o (IF from = <<>> THEN <<>> ELSE <<Sep>> \o from) \o tail)

\* absolutePathToRelative: pathToModify.replace(appRootFolderPath, "").
absolutePathToRelative(appRootFolderPath, pathToModify) ==
  StringReplace(pathToModify, appRootFolderPath, <<>>)

\* resolvePathToFile: path.resolve(appRootFolderPath, relativePathToFile).
resolvePathToFile(wd, appRootFolderPath, originalFilePath) ==
  PathResolve(wd, appRootFolderPath, absolutePathToRelative(appRootFolderPath, originalFilePath))


\* ------------------------------------------------------------- environment
\* Source texts the compiler handle and the disk can hold.
Texts == {"", "x", "y"}

\* Values of the optional codeToCompile argument of compile.
TextArgs == Texts \cup {undefined}

\* filePath arguments of compile: root-relative, absolute under the project
\* root, and absolute outside the project root.
RequestPaths == {<<"b">>, <<"/", "a", "/", "b">>, <<"/", "b">>}

\* Working directory of the process: the project root or a directory below it
\* (findPathToFile searches upwards for package.json).
WorkingDirs == {ProjectRoot, <<"/", "a", "/", "a">>}

\* Absolute paths at which a regular file may exist.
FsPaths == {<<"/", "a", "/", "b">>, <<"/", "b">>, <<"/", "a", "/", "a", "/", "b">>}

\* What readFileSync finds at a path: no file, a file the process may not
\* read, or the text of a file.
NoFile == "<ENOENT>"

Unreadable == "<EACCES>"

FileStates == {NoFile, Unreadable} \cup Texts

NoDiagnostics == <<>>

TranspileOutput(outputText, diagnostics) ==
  [outputText |-> outputText, diagnostics |-> diagnostics]

\* Injected typescript handles: transpileModule as a function of the text.
\* For tsChecking "x" is code and "y" is malformed; for tsEliding "x" holds
\* declarations only, for which nothing is emitted, and "y" is code.
tsChecking ==
  [t \in Texts |-> IF t = "x" THEN TranspileOutput("X", NoDiagnostics)
                   ELSE IF t = "y" THEN TranspileOutput("Y", <<"TS1005">>)
                   ELSE TranspileOutput("", NoDiagnostics)]

tsEliding ==
  [t \in Texts |-> IF t = "x" THEN TranspileOutput("", NoDiagnostics)
                   ELSE IF t = "y" THEN TranspileOutput("Y", NoDiagnostics)
                   ELSE TranspileOutput("", NoDiagnostics)]

TSHandles == {tsChecking, tsEliding}

\* --------------------------------------------------------------- the state
VARIABLES
  ts,            \* this.ts: the injected compiler handle
  disk,          \* the filesystem: FsPaths -> FileStates
  cwd,           \* the working directory of the process
  manifest,      \* TRUE iff findPathToFile("package.json") finds the file
  appRootPath,   \* this.appRootPath (null until discovered)
  diskCache,     \* this.diskCache: 0 is null, n > 0 the n-th InFilesCache built
  cacheStore,    \* entries [key, value] kept by InFilesCache under cacheFolderPath
  cacheInits,    \* number of InFilesCache constructions
  discoveries,   \* number of findPathToFile invocations
  started,       \* number of compile calls started
  pc,            \* position of each call inside compile
  req,           \* arguments of each call
  loc,           \* local variables of each call
  eff,           \* side effects performed by each call so far
  out,           \* settlement of the promise returned by each call
  cache0,        \* cacheStore as it was when each call started
  prev           \* the call completed before the current one

vars == <<ts, disk, cwd, manifest, appRootPath, diskCache, cacheStore, cacheInits,
          discoveries, started, pc, req, loc, eff, out, cache0, prev>>

envVars == <<ts, disk, cwd, manifest>>

null == <<>>

Context == "@j.u.p.iter/ts-compiler"

NoParams == [fileContent |-> undefined, fileExtension |-> "", filePath |-> null]

NoError == [name |-> "none", path |-> null, context |-> "", diagnostics |-> NoDiagnostics]

NoReq == [filePath |-> null, codeToCompile |-> undefined]

NoLoc ==
  [resolvedFilePath |-> null, cacheParams |-> NoParams, entryFound |-> FALSE,
   compiledCodeFromCache |-> undefined, compilerInput |-> undefined,
   compiledCode |-> undefined, getHandle |-> 0, setHandle |-> 0]

NoEff == [reads |-> 0, gets |-> 0, sets |-> 0, transpiles |-> 0, discoveries |-> 0]

Pending == [status |-> "pending", value |-> undefined, error |-> NoError]

Resolved(v) == [status |-> "resolved", value |-> v, error |-> NoError]

Rejected(e) == [status |-> "rejected", value |-> undefined, error |-> e]

NoPrev == [req |-> NoReq, loc |-> NoLoc, eff |-> NoEff, out |-> Pending]

Init ==
  /\ ts \in TSHandles
  /\ disk \in [FsPaths -> FileStates]
  /\ cwd \in WorkingDirs
  /\ manifest \in BOOLEAN
  /\ appRootPath = null
  /\ diskCache = 0
  /\ cacheStore = {}
  /\ cacheInits = 0
  /\ discoveries = 0
  /\ started = 0
  /\ pc = [c \in Calls |-> "idle"]
  /\ req = [c \in Calls |-> NoReq]
  /\ loc = [c \in Calls |-> NoLoc]
  /\ eff = [c \in Calls |-> NoEff]
  /\ out = [c \in Calls |-> Pending]
  /\ cache0 = [c \in Calls |-> {}]
  /\ prev = NoPrev


\* ---------------------------------------------------------- collaborators
\* readFileSync(filePath, "utf8"): a relative path is taken from the working
\* directory; a path with no regular file fails with ENOENT.
readFileSync(fs, wd, filePath) ==
  LET target == PathResolve(wd, wd, filePath)
  IN IF target \in DOMAIN fs THEN fs[target] ELSE NoFile

\* InFilesCache.get(cacheParams): the stored text, undefined when absent.
CacheGetValue(store, cacheParams) ==
  IF \E e \in store : e.key = cacheParams
  THEN (CHOOSE e \in store : e.key = cacheParams).value
  ELSE undefined

\* Variant of CachePut: the write is lost.
CachePutLost(store, cacheParams, text) == store

\* InFilesCache.set(cacheParams, text): one entry per key, last write wins.
CachePut(store, cacheParams, text) ==
  {e \in store : e.key # cacheParams} \cup {[key |-> cacheParams, value |-> text]}

HasEntry(store, cacheParams) == \E e \in store : e.key = cacheParams

InvalidPathError(filePath) ==
  [name |-> "InvalidPathError", path |-> filePath, context |-> Context,
   diagnostics |-> NoDiagnostics]

TSTranspileError(filePath, diagnostics) ==
  [name |-> "TSTranspileError", path |-> filePath, context |-> Context,
   diagnostics |-> diagnostics]

DiscoveryError ==
  [name |-> "DiscoveryError", path |-> null, context |-> "", diagnostics |-> NoDiagnostics]

SystemError ==
  [name |-> "SystemError", path |-> null, context |-> "", diagnostics |-> NoDiagnostics]

\* Variant of readFile: the error code test never matches, every failure is
\* rethrown as it is.
readFileRethrowing(fs, wd, filePath) ==
  LET found == readFileSync(fs, wd, filePath)
  IN IF found \in {NoFile, Unreadable}
     THEN [error |-> SystemError, value |-> undefined]
     ELSE [error |-> NoError, value |-> found]

\* readFile (lines 181-195): the text of the file, or the error it throws.
readFile(fs, wd, filePath) ==
  LET found == readFileSync(fs, wd, filePath)
  IN IF found = NoFile
     THEN [error |-> InvalidPathError(filePath), value |-> undefined]
     ELSE IF found = Unreadable
          THEN [error |-> SystemError, value |-> undefined]
          ELSE [error |-> NoError, value |-> found]

\* Variant of DiskReads: readFile reads the file a second time.
DiskReadsRepeated(n, read) == IF read THEN n + 2 ELSE n

\* Disk reads done after n earlier ones: readFile calls readFileSync once.
DiskReads(n, read) == IF read THEN n + 1 ELSE n

\* `codeToCompile ? codeToCompile : await this.readFile(...)`: is the disk read?
NeedsRead(codeToCompile) == ~Truthy(codeToCompile)

\* Variant of IsCacheHit: the cached text is never returned.
IsCacheHitNever(compiledCodeFromCache) == FALSE

\* `if (compiledCodeFromCache)`: the test that makes compile return the cached text.
IsCacheHit(compiledCodeFromCache) == Truthy(compiledCodeFromCache)

\* Variant of HasDiagnostics: the diagnostics are not looked at.
HasDiagnosticsIgnored(diagnostics) == FALSE

\* `if (diagnostics && diagnostics.length)`.
HasDiagnostics(diagnostics) == Len(diagnostics) > 0

\* ------------------------------------------------------------------ actions
Idle(c) == pc[c] \in {"idle", "done"}

Finish(c, settlement) ==
  /\ pc' = [pc EXCEPT ![c] = "done"]
  /\ out' = [out EXCEPT ![c] = settlement]

\* compile(filePath, codeToCompile) is called (line 324).
Begin(c, filePath, codeToCompile) ==
  /\ Idle(c)
  /\ started < MaxCalls
  /\ started' = started + 1
  /\ prev' = IF pc[c] = "done"
             THEN [req |-> req[c], loc |-> loc[c], eff |-> eff[c], out |-> out[c]]
             ELSE prev
  /\ pc' = [pc EXCEPT ![c] = "initCache"]
  /\ req' = [req EXCEPT ![c] = [filePath |-> filePath, codeToCompile |-> codeToCompile]]
  /\ loc' = [loc EXCEPT ![c] = NoLoc]
  /\ eff' = [eff EXCEPT ![c] = NoEff]
  /\ out' = [out EXCEPT ![c] = Pending]
  /\ cache0' = [cache0 EXCEPT ![c] = cacheStore]
  /\ UNCHANGED <<envVars, appRootPath, diskCache, cacheStore, cacheInits, discoveries>>

\* A call starts while no other call of the instance is in progress.
BeginAlone ==
  /\ \A d \in Calls : Idle(d)
  /\ \E filePath \in RequestPaths, codeToCompile \in TextArgs :
       Begin(1, filePath, codeToCompile)

\* Variant of InitCache: a cache handle is constructed on every call.
InitCacheAlways(c) ==
  /\ pc[c] = "initCache"
  /\ diskCache' = cacheInits + 1
  /\ cacheInits' = cacheInits + 1
  /\ pc' = [pc EXCEPT ![c] = "getRoot"]
  /\ UNCHANGED <<envVars, appRootPath, cacheStore, discoveries, started, req, loc, eff,
                 out, cache0, prev>>

\* initCache (lines 244-248).
InitCache(c) ==
  /\ pc[c] = "initCache"
  /\ IF diskCache = 0
     THEN /\ diskCache' = cacheInits + 1
          /\ cacheInits' = cacheInits + 1
     ELSE UNCHANGED <<diskCache, cacheInits>>
  /\ pc' = [pc EXCEPT ![c] = "getRoot"]
  /\ UNCHANGED <<envVars, appRootPath, cacheStore, discoveries, started, req, loc, eff,
                 out, cache0, prev>>

\* getAppRootFolderPath up to its await (lines 153-158), entered from
\* resolvePathToFile (line 278).
GetRoot(c) ==
  /\ pc[c] = "getRoot"
  /\ IF appRootPath # null
     THEN /\ pc' = [pc EXCEPT ![c] = "resolve"]
          /\ UNCHANGED <<discoveries, eff>>
     ELSE /\ pc' = [pc EXCEPT ![c] = "findPath"]
          /\ discoveries' = discoveries + 1
          /\ eff' = [eff EXCEPT ![c].discoveries = @ + 1]
  /\ UNCHANGED <<envVars, appRootPath, diskCache, cacheStore, cacheInits, started, req,
                 loc, out, cache0, prev>>

\* Variant of FindPath: a failed discovery is swallowed and the call goes on
\* with the root taken to be the project root.
FindPathFallback(c) ==
  /\ pc[c] = "findPath"
  /\ appRootPath' = ProjectRoot
  /\ pc' = [pc EXCEPT ![c] = "resolve"]
  /\ UNCHANGED <<envVars, diskCache, cacheStore, cacheInits, discoveries, started, req,
                 loc, eff, out, cache0, prev>>

\* findPathToFile("package.json") settles (lines 158-162).
FindPath(c) ==
  /\ pc[c] = "findPath"
  /\ IF manifest
     THEN /\ appRootPath' = ProjectRoot
          /\ pc' = [pc EXCEPT ![c] = "resolve"]
          /\ UNCHANGED out
     ELSE /\ Finish(c, Rejected(DiscoveryError))
          /\ UNCHANGED appRootPath
  /\ UNCHANGED <<envVars, diskCache, cacheStore, cacheInits, discoveries, started, req,
                 loc, eff, cache0, prev>>

\* The rest of resolvePathToFile (lines 279-283); the root is memoized by now,
\* so absolutePathToRelative gets it without a discovery.
ResolvePath(c) ==
  /\ pc[c] = "resolve"
  /\ appRootPath # null
  /\ loc' = [loc EXCEPT ![c].resolvedFilePath =
               resolvePathToFile(cwd, appRootPath, req[c].filePath)]
  /\ pc' = [pc EXCEPT ![c] = "getCacheParams"]
  /\ UNCHANGED <<envVars, appRootPath, diskCache, cacheStore, cacheInits, discoveries,
                 started, req, eff, out, cache0, prev>>

\* getCacheParams after the path is resolved (lines 292-300), with readFile
\* (lines 181-195).
GetCacheParams(c) ==
  /\ pc[c] = "getCacheParams"
  /\ LET code == req[c].codeToCompile
         resolvedFilePath == loc[c].resolvedFilePath
         read == NeedsRead(code)
         fileContent == IF read THEN readFile(disk, cwd, resolvedFilePath)
                        ELSE [error |-> NoError, value |-> code]
     IN /\ eff' = [eff EXCEPT ![c].reads = DiskReads(@, read)]
        /\ IF fileContent.error # NoError
           THEN /\ Finish(c, Rejected(fileContent.error))
                /\ UNCHANGED loc
           ELSE /\ loc' = [loc EXCEPT ![c].cacheParams =
                             [fileContent |-> fileContent.value, fileExtension |-> ".js",
                              filePath |-> resolvedFilePath]]
                /\ pc' = [pc EXCEPT ![c] = "cacheGet"]
                /\ UNCHANGED out
  /\ UNCHANGED <<envVars, appRootPath, diskCache, cacheStore, cacheInits, discoveries,
                 started, req, cache0, prev>>

\* diskCache.get and the hit test (lines 335-345).
CacheGet(c) ==
  /\ pc[c] = "cacheGet"
  /\ LET compiledCodeFromCache == CacheGetValue(cacheStore, loc[c].cacheParams)
     IN /\ loc' = [loc EXCEPT ![c].compiledCodeFromCache = compiledCodeFromCache,
                              ![c].entryFound = HasEntry(cacheStore, loc[c].cacheParams),
                              ![c].getHandle = diskCache]
        /\ eff' = [eff EXCEPT ![c].gets = @ + 1]
        /\ IF IsCacheHit(compiledCodeFromCache)
           THEN Finish(c, Resolved(compiledCodeFromCache))
           ELSE /\ pc' = [pc EXCEPT ![c] = "compileTSFile"]
                /\ UNCHANGED out
  /\ UNCHANGED <<envVars, appRootPath, diskCache, cacheStore, cacheInits, discoveries,
                 started, req, cache0, prev>>

\* compileTSFile(filePath, codeToCompile) (lines 202-234).
CompileTSFile(c) ==
  /\ pc[c] = "compileTSFile"
  /\ LET code == req[c].codeToCompile
         filePath == req[c].filePath
         read == NeedsRead(code)
         source == IF read THEN readFile(disk, cwd, filePath)
                   ELSE [error |-> NoError, value |-> code]
         resultCodeToCompile == source.value
     IN /\ IF source.error # NoError
           THEN /\ eff' = [eff EXCEPT ![c].reads = DiskReads(@, read)]
                /\ Finish(c, Rejected(source.error))
                /\ UNCHANGED loc
           ELSE LET result == ts[resultCodeToCompile]
                IN /\ eff' = [eff EXCEPT ![c].reads = DiskReads(@, read),
                                         ![c].transpiles = @ + 1]
                   /\ IF HasDiagnostics(result.diagnostics)
                      THEN /\ Finish(c, Rejected(TSTranspileError(filePath, result.diagnostics)))
                           /\ loc' = [loc EXCEPT ![c].compilerInput = resultCodeToCompile]
                      ELSE /\ loc' = [loc EXCEPT ![c].compilerInput = resultCodeToCompile,
                                                 ![c].compiledCode = result.outputText]
                           /\ pc' = [pc EXCEPT ![c] = "cacheSet"]
                           /\ UNCHANGED out
  /\ UNCHANGED <<envVars, appRootPath, diskCache, cacheStore, cacheInits, discoveries,
                 started, req, cache0, prev>>

\* diskCache.set and the return of the compiled text (lines 357-363).
\* Variant of CacheSet: a set that finds an entry under its key leaves it.
CacheSetUnlessPresent(c) ==
  /\ pc[c] = "cacheSet"
  /\ cacheStore' = IF HasEntry(cacheStore, loc[c].cacheParams)
                   THEN cacheStore
                   ELSE CachePut(cacheStore, loc[c].cacheParams, loc[c].compiledCode)
  /\ eff' = [eff EXCEPT ![c].sets = @ + 1]
  /\ loc' = [loc EXCEPT ![c].setHandle = diskCache]
  /\ Finish(c, Resolved(loc[c].compiledCode))
  /\ UNCHANGED <<envVars, appRootPath, diskCache, cacheInits, discoveries, started, req,
                 cache0, prev>>

CacheSet(c) ==
  /\ pc[c] = "cacheSet"
  /\ cacheStore' = CachePut(cacheStore, loc[c].cacheParams, loc[c].compiledCode)
  /\ eff' = [eff EXCEPT ![c].sets = @ + 1]
  /\ loc' = [loc EXCEPT ![c].setHandle = diskCache]
  /\ Finish(c, Resolved(loc[c].compiledCode))
  /\ UNCHANGED <<envVars, appRootPath, diskCache, cacheInits, discoveries, started, req,
                 cache0, prev>>

Step(c) ==
  \/ InitCache(c)
  \/ GetRoot(c)
  \/ FindPath(c)
  \/ ResolvePath(c)
  \/ GetCacheParams(c)
  \/ CacheGet(c)
  \/ CompileTSFile(c)
  \/ CacheSet(c)

\* Calls of one instance made one after the other.
Next ==
  \/ BeginAlone
  \/ \E c \in Calls : Step(c)

Spec == Init /\ [][Next]_vars

\* Arguments of the calls that overlap: one file, read from disk or supplied.
RacingPaths == {<<"b">>}

RacingTextArgs == {undefined, "x", "y"}

\* A call starts whatever the other calls of the instance are doing: compile
\* takes no lock.
BeginAny ==
  \E c \in Calls, filePath \in RacingPaths, codeToCompile \in RacingTextArgs :
    Begin(c, filePath, codeToCompile)

\* Construction in a project whose file b is code, with a file b of either
\* text in the directory below the root.
InitConcurrent ==
  /\ Init
  /\ disk[<<"/", "a", "/", "b">>] = "x"
  /\ disk[<<"/", "a", "/", "a", "/", "b">>] \in {"x", "y"}
  /\ disk[<<"/", "b">>] = NoFile

\* Calls of one instance interleaved at their awaits.
NextConcurrent ==
  \/ BeginAny
  \/ \E c \in Calls : Step(c)

SpecConcurrent == InitConcurrent /\ [][NextConcurrent]_vars

\* Characters of the filePath arguments the path functions are run on.
PathChars == {"/", "a", "b", "."}

\* Every filePath of one to MaxPathLen characters.
PathInputs == UNION {[1..n -> PathChars] : n \in 1..MaxPathLen}

\* The project as the path functions see it: package.json in the project
\* root, which is also the working directory.
InitPath ==
  /\ Init
  /\ ts = tsChecking
  /\ cwd = ProjectRoot
  /\ manifest
  /\ \A p \in FsPaths : disk[p] = NoFile

\* compile(filePath, "x") with any filePath: the text is supplied, so the call
\* depends on the path only through resolvePathToFile.
BeginPath ==
  /\ \A d \in Calls : Idle(d)
  /\ started = 0
  /\ \E filePath \in PathInputs : Begin(1, filePath, "x")

\* compile(key.filePath, "x"): the canonical path of the call that finished
\* is handed to compile again.
BeginCanonical ==
  /\ \A d \in Calls : Idle(d)
  /\ pc[1] = "done"
  /\ loc[1].resolvedFilePath # null
  /\ Begin(1, loc[1].resolvedFilePath, "x")

NextPath ==
  \/ BeginPath
  \/ BeginCanonical
  \/ \E c \in Calls : Step(c)

SpecPath == InitPath /\ [][NextPath]_vars


\* ------------------------------------------------------------- vocabulary
Done(c) == pc[c] = "done"

Succeeded(c) == Done(c) /\ out[c].status = "resolved"

Failed(c) == Done(c) /\ out[c].status = "rejected"

KeyBuilt(c) == loc[c].cacheParams # NoParams

\* What the compiler handle answers for the text the call handed to it.
Compiled(c) == ts[loc[c].compilerInput]

CleanCompile(c) == eff[c].transpiles > 0 /\ Compiled(c).diagnostics = NoDiagnostics

DirtyCompile(c) == eff[c].transpiles > 0 /\ Compiled(c).diagnostics # NoDiagnostics

\* The call before the current one resolved / was made with the same arguments.
PrevSucceeded == prev.out.status = "resolved"

SameRequestAsPrev(c) == prev.req # NoReq /\ req[c] = prev.req

\* ------------------------------------------------------------------ claims

\* C1 (as stated): two successive successful compile calls with the identical
\* request return the identical text, and transpileModule is invoked at most
\* once across the two calls, whatever text the compiler emits.
C1_Idempotence ==
  \A c \in Calls :
    (Succeeded(c) /\ PrevSucceeded /\ SameRequestAsPrev(c))
      => /\ out[c].value = prev.out.value
         /\ prev.eff.transpiles + eff[c].transpiles <= 1

\* The root-relative path of a file given by its absolute path under the root.
RelativeToRoot(p) == SubSeq(p, Len(ProjectRoot) + 2, Len(p))

IsUnderRoot(p) ==
  /\ Len(p) > Len(ProjectRoot) + 1
  /\ SubSeq(p, 1, Len(ProjectRoot) + 1) = ProjectRoot \o <<Sep>>

\* C2 (as stated): a call given the absolute path root + "/" + rel and a call
\* given the root-relative path rel both build the cache key filePath root/rel.
C2_PathEquivalence ==
  \A c \in Calls :
    KeyBuilt(c) =>
      LET p == req[c].filePath
      IN /\ IsUnderRoot(p) =>
              loc[c].cacheParams.filePath = ProjectRoot \o <<Sep>> \o RelativeToRoot(p)
         /\ ~IsAbsolute(p) =>
              loc[c].cacheParams.filePath = ProjectRoot \o <<Sep>> \o p

\* C3 (as stated): whenever the cache holds an entry for the key of a call,
\* whatever the stored text, the call returns exactly that text and neither
\* invokes the compiler nor writes to the cache.
C3_CacheHit ==
  \A c \in Calls :
    loc[c].entryFound =>
      /\ Succeeded(c)
      /\ out[c].value = loc[c].compiledCodeFromCache
      /\ eff[c].transpiles = 0
      /\ eff[c].sets = 0

\* C4: a call that missed the cache and whose compile reported no diagnostics
\* has written the compiler's output under the key of its lookup and returns
\* that text; the cache then holds that entry.
C4_MissCleanCompileStores ==
  \A c \in Calls :
    (Done(c) /\ eff[c].gets = 1 /\ ~loc[c].entryFound /\ CleanCompile(c))
      => /\ out[c] = Resolved(Compiled(c).outputText)
         /\ eff[c].sets = 1
         /\ [key |-> loc[c].cacheParams, value |-> Compiled(c).outputText] \in cacheStore

\* Reached: starting from an empty cache, a missed call compiled cleanly and
\* stored the text it returns.
C4_Witness ==
  \E c \in Calls :
    /\ Succeeded(c) /\ ~loc[c].entryFound /\ CleanCompile(c)
    /\ cache0[c] = {} /\ cacheStore # {}
    /\ out[c].value = "X"


\* C5 (as stated): a call whose compile reported diagnostics rejects with a
\* transpile error and leaves no cache entry for its key; the next identical
\* call misses the cache, invokes the compiler and rejects the same way.
C5_DiagnosticsShortCircuit ==
  \A c \in Calls :
    /\ (Done(c) /\ DirtyCompile(c))
         => /\ Failed(c)
            /\ out[c].error.name = "TSTranspileError"
            /\ eff[c].sets = 0
            /\ ~HasEntry(cacheStore, loc[c].cacheParams)
    /\ (Done(c) /\ SameRequestAsPrev(c) /\ prev.out.error.name = "TSTranspileError")
         => /\ ~Truthy(loc[c].compiledCodeFromCache)
            /\ eff[c].transpiles = 1
            /\ Failed(c)
            /\ out[c].error.name = "TSTranspileError"

\* C6: a call without sourceText whose resolved path has no file on disk
\* rejects with an InvalidPath error carrying the resolved path, and has done
\* no cache lookup, no compiler invocation and no cache write.
C6_MissingFile ==
  \A c \in Calls :
    (Done(c) /\ req[c].codeToCompile = undefined /\ loc[c].resolvedFilePath # null
       /\ readFileSync(disk, cwd, loc[c].resolvedFilePath) = NoFile)
      => /\ out[c] = Rejected(InvalidPathError(loc[c].resolvedFilePath))
         /\ eff[c].gets = 0
         /\ eff[c].transpiles = 0
         /\ eff[c].sets = 0
         /\ cacheStore = cache0[c]

\* Reached: a real-file call rejected because its resolved path is missing.
C6_Witness ==
  \E c \in Calls :
    /\ Failed(c) /\ req[c].codeToCompile = undefined
    /\ loc[c].resolvedFilePath = <<"/", "a", "/", "b">>
    /\ disk[loc[c].resolvedFilePath] = NoFile
    /\ out[c].error.name = "InvalidPathError"
    /\ eff[c].reads = 1

\* C7 (as stated): two successive calls for one filePath with two different
\* supplied texts use keys that differ in fileContent, each key holding the
\* call's own text; the later write leaves the earlier entry in place, and
\* each call that resolves returns the compiler's output for its own text.
C7_VirtualContentDistinct ==
  \A c \in Calls :
    (/\ KeyBuilt(c) /\ prev.loc.cacheParams # NoParams
     /\ req[c].filePath = prev.req.filePath
     /\ req[c].codeToCompile # undefined /\ prev.req.codeToCompile # undefined
     /\ req[c].codeToCompile # prev.req.codeToCompile)
      => /\ loc[c].cacheParams.fileContent = req[c].codeToCompile
         /\ prev.loc.cacheParams.fileContent = prev.req.codeToCompile
         /\ loc[c].cacheParams # prev.loc.cacheParams
         /\ prev.eff.sets = 1 =>
              [key |-> prev.loc.cacheParams, value |-> prev.loc.compiledCode] \in cacheStore
         /\ Succeeded(c) => out[c].value = ts[req[c].codeToCompile].outputText
         /\ PrevSucceeded => prev.out.value = ts[prev.req.codeToCompile].outputText

\* C8 (as stated): whenever sourceText is supplied, whatever string it is, it
\* is the key's fileContent and the compiler's input and the call reads
\* nothing from disk.
C8_VirtualFileMode ==
  \A c \in Calls :
    req[c].codeToCompile # undefined
      => /\ eff[c].reads = 0
         /\ KeyBuilt(c) => loc[c].cacheParams.fileContent = req[c].codeToCompile
         /\ eff[c].transpiles > 0 => loc[c].compilerInput = req[c].codeToCompile

\* C9 (as stated): a call performs at most one disk read, at most one cache
\* get and at most one cache set.
C9_SideEffectBound ==
  \A c \in Calls :
    /\ eff[c].reads <= 1
    /\ eff[c].gets <= 1
    /\ eff[c].sets <= 1

\* C9 (amended): a call performs at most two disk reads (one to build the key
\* and one more in compileTSFile), at most one cache get and at most one
\* cache set.
C9_SideEffectBoundAmended ==
  \A c \in Calls :
    /\ eff[c].reads <= 2
    /\ eff[c].gets <= 1
    /\ eff[c].sets <= 1

\* Reached: a real-file call that missed the cache read the disk twice, looked
\* the cache up once and wrote it once.
C9_Witness ==
  \E c \in Calls :
    /\ Succeeded(c) /\ req[c].codeToCompile = undefined
    /\ eff[c].reads = 2 /\ eff[c].gets = 1 /\ eff[c].sets = 1

\* C10: a call that rejects leaves the cache as it was when the call started,
\* and a cache set is issued only after the compiler returned with an empty
\* diagnostics list.
C10_NoPartialFailure ==
  \A c \in Calls :
    /\ Failed(c) => (cacheStore = cache0[c] /\ eff[c].sets = 0)
    /\ (pc[c] = "cacheSet" \/ eff[c].sets > 0) => CleanCompile(c)

\* Reached: a call rejected with a transpile error while the cache already
\* held an entry, which is still there.
C10_Witness ==
  \E c \in Calls :
    /\ Failed(c) /\ out[c].error.name = "TSTranspileError"
    /\ cache0[c] # {} /\ cacheStore = cache0[c]

\* C11 (as stated): every entry compile wrote maps its key to the compiler's
\* diagnostic-free output for the key's own fileContent, and the text handed
\* to the compiler is the content placed in the key.
C11_CacheCoherence ==
  /\ \A e \in cacheStore :
       /\ ts[e.key.fileContent].diagnostics = NoDiagnostics
       /\ e.value = ts[e.key.fileContent].outputText
  /\ \A c \in Calls :
       eff[c].transpiles > 0 => loc[c].compilerInput = loc[c].cacheParams.fileContent

C13_NoMissesSuppressed ==
  \A c \in Calls :
    (Succeeded(c) /\ ~Truthy(loc[c].compiledCodeFromCache)) =>
      (eff[c].gets = 1 /\ eff[c].transpiles = 1 /\ eff[c].sets = 1)

C13_LastSetWins ==
  \A c \in Calls :
    eff'[c].sets > eff[c].sets =>
      /\ HasEntry(cacheStore', loc[c].cacheParams)
      /\ CacheGetValue(cacheStore', loc[c].cacheParams) = loc[c].compiledCode

C13_DuplicateWork == [](C13_NoMissesSuppressed) /\ [][C13_LastSetWins]_vars

\* Reached: two calls with one key on a cold cache both missed, both compiled
\* and both set; their outputs differ and the stored value is one of them.
C13_Witness ==
  \E c, d \in Calls :
    /\ c # d
    /\ Succeeded(c) /\ Succeeded(d)
    /\ cache0[c] = {} /\ cache0[d] = {}
    /\ loc[c].cacheParams = loc[d].cacheParams
    /\ ~loc[c].entryFound /\ ~loc[d].entryFound
    /\ eff[c].gets = 1 /\ eff[d].gets = 1
    /\ eff[c].transpiles = 1 /\ eff[d].transpiles = 1
    /\ eff[c].sets = 1 /\ eff[d].sets = 1
    /\ loc[c].compiledCode # loc[d].compiledCode
    /\ CacheGetValue(cacheStore, loc[d].cacheParams) = loc[d].compiledCode
    /\ Cardinality(cacheStore) = 1

\* C14 (as stated): over any interleaving of calls on one instance, project-root
\* discovery is invoked at most once.
C14_DiscoveryAtMostOnce == discoveries <= 1

\* C15: over any interleaving of calls on one instance the cache collaborator
\* is constructed at most once, and every cache get and every cache set of
\* every call goes to that one handle.
C15_SingleCacheHandle ==
  /\ cacheInits <= 1
  /\ diskCache \in {0, 1}
  /\ \A c \in Calls :
       /\ pc[c] \notin {"idle", "initCache"} => diskCache = 1
       /\ eff[c].gets > 0 => loc[c].getHandle = 1
       /\ eff[c].sets > 0 => loc[c].setHandle = 1

\* Reached: two overlapping calls both got from and set to the one handle.
C15_Witness ==
  \E c, d \in Calls :
    /\ c # d
    /\ cacheInits = 1
    /\ cache0[c] = {} /\ cache0[d] = {}
    /\ eff[c].gets = 1 /\ eff[d].gets = 1
    /\ eff[c].sets = 1 /\ eff[d].sets = 1
    /\ loc[c].getHandle = 1 /\ loc[d].getHandle = 1
    /\ loc[c].setHandle = 1 /\ loc[d].setHandle = 1

\* C18 (as stated): every InvalidPath error compile rejects with, whichever of
\* the two disk reads raised it, carries the canonical resolved path (the
\* filePath of the cache key) and the context "@j.u.p.iter/ts-compiler".
C18_InvalidPathPayload ==
  \A c \in Calls :
    (Failed(c) /\ out[c].error.name = "InvalidPathError") =>
      /\ out[c].error.path = loc[c].resolvedFilePath
      /\ out[c].error.context = Context

\* C19: when project-root discovery fails, compile rejects with that failure
\* unchanged; the call made one discovery attempt and no disk read, no cache
\* get, no compiler invocation and no cache set; the root stays un-memoized
\* and the cache is as the call found it.
C19_DiscoveryFailure ==
  \A c \in Calls :
    (Done(c) /\ eff[c].discoveries > 0 /\ ~manifest) =>
      /\ out[c] = Rejected(DiscoveryError)
      /\ eff[c].discoveries = 1
      /\ eff[c].reads = 0
      /\ eff[c].gets = 0
      /\ eff[c].transpiles = 0
      /\ eff[c].sets = 0
      /\ appRootPath = null
      /\ loc[c].resolvedFilePath = null
      /\ cacheStore = cache0[c]

\* Reached: a second call on the instance failed in discovery again, the
\* first failure having memoized nothing.
C19_Witness ==
  \E c \in Calls :
    /\ Failed(c) /\ out[c].error = DiscoveryError
    /\ eff[c].discoveries = 1
    /\ discoveries = 2
    /\ prev.out = Rejected(DiscoveryError)
    /\ appRootPath = null

\* The path has a ".." segment.
HasParentSegment(p) ==
  \E i \in 1..Len(SplitPath(p)) : SplitPath(p)[i] = <<".", ".">>

\* path.join(root, p): p anchored at the root, whatever its first character.
JoinedWithRoot(p) == NormalizeAbsolute(ProjectRoot \o <<Sep>> \o p)

\* C16 (as stated): the canonical path of an absolute filePath that does not
\* contain the root is the root joined with that path.
C16_OutsideRootAnchored ==
  \A c \in Calls :
    (loc[c].resolvedFilePath # null
       /\ IsAbsolute(req[c].filePath)
       /\ IndexOf(req[c].filePath, ProjectRoot) = 0)
      => loc[c].resolvedFilePath = JoinedWithRoot(req[c].filePath)

\* C17 (as stated): the canonical path of every relative filePath without a
\* ".." segment is the root joined with the filePath unchanged, whatever
\* substrings the filePath contains.
C17_RelativeOnlyAnchored ==
  \A c \in Calls :
    (loc[c].resolvedFilePath # null
       /\ ~IsAbsolute(req[c].filePath)
       /\ ~HasParentSegment(req[c].filePath))
      => loc[c].resolvedFilePath = JoinedWithRoot(req[c].filePath)

\* C20 (as stated): canonicalizing a canonical path yields the same path, so a
\* call given the key filePath of the call before it builds the same filePath.
C20_CanonicalIdempotent ==
  \A c \in Calls :
    (loc[c].resolvedFilePath # null
       /\ prev.loc.resolvedFilePath # null
       /\ req[c].filePath = prev.loc.resolvedFilePath)
      => loc[c].resolvedFilePath = req[c].filePath

====
